---- MODULE Spec2Model ----
(***************************************************************************)
(* Browser add-on of smalljellyfish/Graduation_Topics.                     *)
(*                                                                         *)
(* The content script reads the title and the description of a video page  *)
(* (getYouTubeTitle, getYouTubeDescription: a bounded poll loop driven by  *)
(* setTimeout callbacks) and answers the popup's message; the popup cleans *)
(* the description (cleanDescription) and posts it to the local app.       *)
(*                                                                         *)
(* Two revisions of the content script are in the repository:              *)
(*   part_000  maxAttempts = 3, an empty description resolves null,        *)
(*             exhaustion resolves null, description read by textContent;  *)
(*   part_001  maxAttempts = 5, an empty description is polled again,      *)
(*             exhaustion resolves a sentinel string, description read by  *)
(*             extractText; a second listener answers 'getTitle'.          *)
(* The variable version says which revision is loaded in the page.         *)
(*                                                                         *)
(* A string is a sequence of characters; a character is written as a short *)
(* token ("a", "SP", "LF", "NBSP", ...).  The page (DOM) is not state of   *)
(* the program: every handler draws what its querySelector calls find from *)
(* small sets, so the page may change arbitrarily between two callbacks.   *)
(***************************************************************************)
EXTENDS Integers, Sequences, FiniteSets, TLC

VARIABLES version, calls, event, cleanIn, cleanOut, cleanPc, flat, popup

vars == <<version, calls, event, cleanIn, cleanOut, cleanPc, flat, popup>>

----------------------------------------------------------------------------
(* Characters and strings *)

\* ECMAScript WhiteSpace and LineTerminator code points of the alphabet:
\* what /\s/ matches and what String.prototype.trim removes.
JsWhiteSpace == {"SP", "TAB", "LF", "CR", "NBSP", "BOM"}

\* [\u{a0}\u{200B}-\u{200D}\u{FEFF}] of cleanDescription
SpecialUnicode == {"NBSP", "ZWSP", "ZWNJ", "ZWJ", "BOM"}

IsSpace(ch) == ch \in JsWhiteSpace

RECURSIVE TrimStart(_)
TrimStart(s) ==
  IF s = <<>> THEN <<>>
  ELSE IF IsSpace(Head(s)) THEN TrimStart(Tail(s)) ELSE s

RECURSIVE TrimEnd(_)
TrimEnd(s) ==
  IF s = <<>> THEN <<>>
  ELSE IF IsSpace(s[Len(s)]) THEN TrimEnd(SubSeq(s, 1, Len(s) - 1)) ELSE s

\* String.prototype.trim
Trim(s) == TrimEnd(TrimStart(s))

\* a JavaScript value that is a string or null
Null == [isNull |-> TRUE, s |-> <<>>]
Str(s) == [isNull |-> FALSE, s |-> s]

Http == <<"h", "t", "t", "p", ":", "/", "/">>
Https == <<"h", "t", "t", "p", "s", ":", "/", "/">>

\* '無法獲取標題' and '無法獲取描述', one token per character
TitleSentinel == <<"wu", "fa", "huo", "qu", "biao", "ti">>
DescriptionSentinel == <<"wu", "fa", "huo", "qu", "miao", "shu">>

----------------------------------------------------------------------------
(* The page: DOM nodes *)

\* what document.querySelector returns when nothing matches
NoElement == [kind |-> "none", tagName |-> "", text |-> <<>>, href |-> <<>>, children |-> <<>>]
TextNode(t) == [kind |-> "text", tagName |-> "", text |-> t, href |-> <<>>, children |-> <<>>]
Element(tag, kids) == [kind |-> "element", tagName |-> tag, text |-> <<>>, href |-> <<>>, children |-> kids]
Anchor(href, kids) == [kind |-> "element", tagName |-> "A", text |-> <<>>, href |-> href, children |-> kids]

\* String.prototype.toLowerCase on the tag names of the model
ToLowerCase(tag) ==
  CASE tag = "A" -> "a"
    [] tag = "SPAN" -> "span"
    [] tag = "H1" -> "h1"
    [] tag = "YT-ATTRIBUTED-STRING" -> "yt-attributed-string"
    [] OTHER -> tag

\* Node.textContent: the text of the text nodes below, in document order
RECURSIVE textContent(_)
RECURSIVE textContentOfList(_)
textContent(node) ==
  IF node.kind = "text" THEN node.text ELSE textContentOfList(node.children)
textContentOfList(nodes) ==
  IF nodes = <<>> THEN <<>>
  ELSE textContent(Head(nodes)) \o textContentOfList(Tail(nodes))

\* extractText with the recursion in an else: the text of an anchor is lost
RECURSIVE extractTextAnchorOnly(_)
RECURSIVE extractTextAnchorOnlyOfList(_)
extractTextAnchorOnly(element) == extractTextAnchorOnlyOfList(element.children)
extractTextAnchorOnlyOfList(nodes) ==
  IF nodes = <<>> THEN <<>>
  ELSE LET node == Head(nodes)
           here == IF node.kind = "text" THEN node.text
                   ELSE IF node.kind = "element"
                        THEN IF ToLowerCase(node.tagName) = "a"
                             THEN node.href \o <<"SP">>
                             ELSE extractTextAnchorOnly(node)
                        ELSE <<>>
       IN here \o extractTextAnchorOnlyOfList(Tail(nodes))

\* extractText of part_001: as textContent, and an anchor's href and one
\* space before the anchor's own text
RECURSIVE extractText(_)
RECURSIVE extractTextOfList(_)
extractText(element) == extractTextOfList(element.children)
extractTextOfList(nodes) ==
  IF nodes = <<>> THEN <<>>
  ELSE LET node == Head(nodes)
           here == IF node.kind = "text" THEN node.text
                   ELSE IF node.kind = "element"
                        THEN (IF ToLowerCase(node.tagName) = "a"
                              THEN node.href \o <<"SP">> ELSE <<>>)
                             \o extractText(node)
                        ELSE <<>>
       IN here \o extractTextOfList(Tail(nodes))

\* no tree is being flattened
FlatOff == [pc |-> "off", tree |-> NoElement, text |-> <<>>]

\* the popup is closed
PopupOff ==
  [ version |-> "none", pc |-> "off", loader |-> "none",
    title |-> <<>>, description |-> <<>>, result |-> <<>>,
    sent |-> 0, lastError |-> FALSE, posts |-> <<>> ]

\* what the querySelector calls of the content script can find
TitleElements ==
  { NoElement,
    Element("H1", <<>>),
    Element("H1", <<TextNode(<<"SP">>)>>),
    Element("H1", <<TextNode(<<"SP", "a", "SP">>)>>) }

ShowMoreButtons == { NoElement, Element("TP-YT-PAPER-BUTTON", <<>>) }

DescriptionElements ==
  { NoElement,
    Element("YT-ATTRIBUTED-STRING", <<>>),
    Element("YT-ATTRIBUTED-STRING", <<TextNode(<<"SP", "LF">>)>>),
    Element("YT-ATTRIBUTED-STRING", <<Element("SPAN", <<TextNode(<<"a", "SP">>)>>)>>),
    Element("YT-ATTRIBUTED-STRING", <<Anchor(Https \o <<"x">>, <<>>)>>) }

----------------------------------------------------------------------------
(* The content script *)

Versions == {"part_000", "part_001"}

MaxAttempts000 == 3
MaxAttempts001 == 5

maxAttempts(v) == IF v = "part_000" THEN MaxAttempts000 ELSE MaxAttempts001

\* getYouTubeTitle, the same in both revisions
getYouTubeTitle(titleElement) ==
  IF titleElement # NoElement THEN Trim(textContent(titleElement)) ELSE TitleSentinel

\* sendResponse has not been called
NoResponse == [title |-> <<>>, hasDescription |-> FALSE, description |-> Null]

\* One message and the getYouTubeDescription call it starts: the closure
\* (attempts), the timers the call has pending, its promise (settled,
\* value), the title Promise.all holds, and what the call did to its
\* environment (clicks of the expand control, container lookups, whether
\* every lookup found no container, calls of sendResponse).
NewCall ==
  [ action |-> "none", attempts |-> 0,
    pendingTry |-> 0, pendingExtract |-> 0,
    settled |-> FALSE, value |-> Null,
    thenPending |-> FALSE, title |-> <<>>,
    clicks |-> 0, lookups |-> 0, allAbsent |-> TRUE,
    responses |-> 0, response |-> NoResponse ]

\* resolve of the promise: only the first call settles it
resolve(r, v) ==
  IF r.settled THEN r ELSE [r EXCEPT !.settled = TRUE, !.value = v]

\* the retry timer set twice
setTimeoutTryTwice(r) == [r EXCEPT !.pendingTry = @ + 2]

\* setTimeout(tryGetDescription, 1000) and setTimeout(extractDescription, 1000)
setTimeoutTry(r) == [r EXCEPT !.pendingTry = @ + 1]
setTimeoutExtract(r) == [r EXCEPT !.pendingExtract = @ + 1]

\* a click delivered twice
clickTwice(r) == [r EXCEPT !.clicks = @ + 2]

\* showMoreButton.click()
click(r) == [r EXCEPT !.clicks = @ + 1]

\* document.querySelector('yt-attributed-string.ytd-text-inline-expander')
querySelectorDescription(r, descriptionElement) ==
  [r EXCEPT !.lookups = @ + 1,
            !.allAbsent = @ /\ descriptionElement = NoElement]

\* extractDescription of part_000 resolving the empty text it read
extractDescription000EmptyString(r0, descriptionElement) ==
  LET r == querySelectorDescription(r0, descriptionElement)
  IN IF descriptionElement # NoElement
     THEN resolve(r, Str(Trim(textContent(descriptionElement))))
     ELSE IF r.attempts < MaxAttempts000
          THEN setTimeoutTry(r)
          ELSE resolve(r, Null)

\* extractDescription of part_000
extractDescription000(r0, descriptionElement) ==
  LET r == querySelectorDescription(r0, descriptionElement)
  IN IF descriptionElement # NoElement
     THEN LET description == Trim(textContent(descriptionElement))
          IN IF description # <<>>
             THEN resolve(r, Str(description))
             ELSE resolve(r, Null)
     ELSE IF r.attempts < MaxAttempts000
          THEN setTimeoutTry(r)
          ELSE resolve(r, Null)

\* extractDescription of part_001 with attempts <= maxAttempts
extractDescription001OffByOne(r0, descriptionElement) ==
  LET r == querySelectorDescription(r0, descriptionElement)
  IN IF descriptionElement # NoElement
     THEN LET description == Trim(extractText(descriptionElement))
          IN IF description # <<>>
             THEN resolve(r, Str(description))
             ELSE IF r.attempts <= MaxAttempts001
                  THEN setTimeoutTry(r)
                  ELSE resolve(r, Str(DescriptionSentinel))
     ELSE IF r.attempts <= MaxAttempts001
          THEN setTimeoutTry(r)
          ELSE resolve(r, Str(DescriptionSentinel))

\* extractDescription of part_001 with the retry on an empty description lost
extractDescription001NoRetry(r0, descriptionElement) ==
  LET r == querySelectorDescription(r0, descriptionElement)
  IN IF descriptionElement # NoElement
     THEN LET description == Trim(extractText(descriptionElement))
          IN IF description # <<>>
             THEN resolve(r, Str(description))
             ELSE IF r.attempts < MaxAttempts001
                  THEN r
                  ELSE resolve(r, Str(DescriptionSentinel))
     ELSE IF r.attempts < MaxAttempts001
          THEN setTimeoutTry(r)
          ELSE resolve(r, Str(DescriptionSentinel))

\* extractDescription of part_001 resolving on an empty description, as
\* part_000 does
extractDescription001EmptyResolves(r0, descriptionElement) ==
  LET r == querySelectorDescription(r0, descriptionElement)
  IN IF descriptionElement # NoElement
     THEN LET description == Trim(extractText(descriptionElement))
          IN IF description # <<>>
             THEN resolve(r, Str(description))
             ELSE resolve(r, Str(DescriptionSentinel))
     ELSE IF r.attempts < MaxAttempts001
          THEN setTimeoutTry(r)
          ELSE resolve(r, Str(DescriptionSentinel))

\* extractDescription of part_001
extractDescription001(r0, descriptionElement) ==
  LET r == querySelectorDescription(r0, descriptionElement)
  IN IF descriptionElement # NoElement
     THEN LET description == Trim(extractText(descriptionElement))
          IN IF description # <<>>
             THEN resolve(r, Str(description))
             ELSE IF r.attempts < MaxAttempts001
                  THEN setTimeoutTry(r)
                  ELSE resolve(r, Str(DescriptionSentinel))
     ELSE IF r.attempts < MaxAttempts001
          THEN setTimeoutTry(r)
          ELSE resolve(r, Str(DescriptionSentinel))

extractDescription(v, r, descriptionElement) ==
  IF v = "part_000" THEN extractDescription000(r, descriptionElement)
  ELSE extractDescription001(r, descriptionElement)

\* tryGetDescription with the else lost: the extraction also runs at once
\* when the timer for it was set
tryGetDescriptionNoElse(v, r0, showMoreButton, descriptionElement) ==
  LET r == [r0 EXCEPT !.attempts = @ + 1]
  IN IF showMoreButton # NoElement
     THEN extractDescription(v, setTimeoutExtract(click(r)), descriptionElement)
     ELSE extractDescription(v, r, descriptionElement)

\* tryGetDescription, the same in both revisions
tryGetDescription(v, r0, showMoreButton, descriptionElement) ==
  LET r == [r0 EXCEPT !.attempts = @ + 1]
  IN IF showMoreButton # NoElement
     THEN setTimeoutExtract(click(r))
     ELSE extractDescription(v, r, descriptionElement)

\* getYouTubeDescription: the promise executor runs the first attempt at once
getYouTubeDescription(v, r, showMoreButton, descriptionElement) ==
  tryGetDescription(v, r, showMoreButton, descriptionElement)

sendResponse(r, msg) == [r EXCEPT !.responses = @ + 1, !.response = msg]

\* the listener answering with the title at once, before the description
listenerTitleFirst(v, r, request, titleElement, showMoreButton, descriptionElement) ==
  IF request = "getTitleAndDescription"
  THEN getYouTubeDescription(v,
         sendResponse([r EXCEPT !.title = getYouTubeTitle(titleElement), !.thenPending = TRUE],
                      [title |-> getYouTubeTitle(titleElement),
                       hasDescription |-> FALSE, description |-> Null]),
         showMoreButton, descriptionElement)
  ELSE r

\* the 'getTitleAndDescription' listener: Promise.all([title, promise]).then(...)
listenerTitleAndDescription(v, r, request, titleElement, showMoreButton, descriptionElement) ==
  IF request = "getTitleAndDescription"
  THEN getYouTubeDescription(v,
         [r EXCEPT !.title = getYouTubeTitle(titleElement), !.thenPending = TRUE],
         showMoreButton, descriptionElement)
  ELSE r

\* the 'getTitle' listener, which part_001 also registers
listenerTitle(v, r, request, titleElement) ==
  IF v = "part_001" /\ request = "getTitle"
  THEN sendResponse(r, [title |-> getYouTubeTitle(titleElement),
                        hasDescription |-> FALSE, description |-> Null])
  ELSE r

\* the callback of Promise.all(...).then: one sendResponse with both fields
thenCallback(r) ==
  sendResponse([r EXCEPT !.thenPending = FALSE],
               [title |-> r.title, hasDescription |-> TRUE, description |-> r.value])

----------------------------------------------------------------------------
(* The state machine of the content script *)

\* messages the model delivers to the content script
NumCalls == 2

Calls == 1..NumCalls

Requests == {"getTitleAndDescription", "getTitle"}

\* the description a poll of the given revision reads from the container
ReadDescription(v, descriptionElement) ==
  IF descriptionElement = NoElement THEN <<>>
  ELSE Trim(IF v = "part_000" THEN textContent(descriptionElement)
            ELSE extractText(descriptionElement))

\* what a poll finds: no container, one with no text, one with text
Found(v, descriptionElement) ==
  IF descriptionElement = NoElement THEN "absent"
  ELSE IF ReadDescription(v, descriptionElement) = <<>> THEN "empty" ELSE "text"

\* the last callback that ran: whose call, which callback, and what its
\* container lookup found ("none": it did not look) and read
NoEvent == [c |-> 0, op |-> "init", found |-> "none", text |-> <<>>]

\* attempts declared outside getYouTubeDescription: one counter for all calls
StoreCallSharedAttempts(cs, c, r) ==
  [d \in DOMAIN cs |-> IF d = c THEN r
                       ELSE IF cs[d].action = "getTitleAndDescription"
                            THEN [cs[d] EXCEPT !.attempts = r.attempts]
                            ELSE cs[d]]

\* attempts, the timers and the promise live in the closure of one
\* getYouTubeDescription call: a step of call c writes call c only
StoreCall(cs, c, r) == [cs EXCEPT ![c] = r]

\* one callback of call c ran and left the call as r; event records what
\* the callback did
Step(c, r, op, descriptionElement) ==
  /\ calls' = StoreCall(calls, c, r)
  /\ event' = [ c |-> c, op |-> op,
                found |-> IF r.lookups > calls[c].lookups
                          THEN Found(version, descriptionElement) ELSE "none",
                text |-> IF r.lookups > calls[c].lookups
                         THEN ReadDescription(version, descriptionElement) ELSE <<>> ]
  /\ UNCHANGED <<version, cleanIn, cleanOut, cleanPc, flat, popup>>

InitPage ==
  /\ version \in Versions
  /\ calls = [c \in Calls |-> NewCall]
  /\ event = NoEvent
  /\ cleanIn = Null
  /\ cleanOut = Null
  /\ cleanPc = "off"
  /\ flat = FlatOff
  /\ popup = PopupOff

\* chrome.runtime.onMessage delivers the next message to the listeners,
\* the page showing one of the given headings
OnMessageWith(c, titleElements) ==
  /\ calls[c].action = "none"
  /\ \A d \in 1..(c - 1) : calls[d].action # "none"
  /\ \E request \in Requests, titleElement \in titleElements,
        showMoreButton \in ShowMoreButtons, descriptionElement \in DescriptionElements :
       LET r0 == [calls[c] EXCEPT !.action = request]
           r1 == listenerTitleAndDescription(version, r0, request, titleElement,
                                             showMoreButton, descriptionElement)
           r2 == listenerTitle(version, r1, request, titleElement)
       IN Step(c, r2, "message", descriptionElement)

OnMessage(c) == OnMessageWith(c, TitleElements)

\* a timer set by setTimeout(tryGetDescription, 1000) fires
TimerTry(c) ==
  /\ calls[c].pendingTry > 0
  /\ \E showMoreButton \in ShowMoreButtons, descriptionElement \in DescriptionElements :
       Step(c, tryGetDescription(version, [calls[c] EXCEPT !.pendingTry = @ - 1],
                                 showMoreButton, descriptionElement),
            "tryGetDescription", descriptionElement)

\* a timer set by setTimeout(extractDescription, 1000) fires
TimerExtract(c) ==
  /\ calls[c].pendingExtract > 0
  /\ \E descriptionElement \in DescriptionElements :
       Step(c, extractDescription(version, [calls[c] EXCEPT !.pendingExtract = @ - 1],
                                  descriptionElement),
            "extractDescription", descriptionElement)

\* the promise is settled: the then-callback runs, once
Then(c) ==
  /\ calls[c].thenPending
  /\ calls[c].settled
  /\ Step(c, thenCallback(calls[c]), "then", NoElement)

\* one message, and the call it starts
Next ==
  OnMessage(1) \/ TimerTry(1) \/ TimerExtract(1) \/ Then(1)

Spec == InitPage /\ [][Next]_vars

\* every scheduled timer fires
TimerFairness(c) == WF_vars(TimerTry(c)) /\ WF_vars(TimerExtract(c))

\* every scheduled timer fires and every queued then-callback runs
Fairness(c) == TimerFairness(c) /\ WF_vars(Then(c))

TimerFairSpec == Spec /\ TimerFairness(1)

FairSpec == Spec /\ Fairness(1)

\* the headings of the page while calls overlap: the title is read once,
\* at the message, and plays no part in the polling
ConcTitleElements == { Element("H1", <<TextNode(<<"SP", "a", "SP">>)>>) }

OnMessageConc(c) == OnMessageWith(c, ConcTitleElements)

\* NumCalls messages, their calls overlapping in every order
NextConc ==
  \E c \in Calls : OnMessageConc(c) \/ TimerTry(c) \/ TimerExtract(c) \/ Then(c)

ConcSpec == InitPage /\ [][NextConc]_vars

FairConcSpec == ConcSpec /\ \A c \in Calls : Fairness(c)

----------------------------------------------------------------------------
(* The popup: cleanDescription *)

\* description.replace(/[\u{a0}\u{200B}-\u{200D}\u{FEFF}]/gu, ' ')
RECURSIVE ReplaceSpecialUnicode(_)
ReplaceSpecialUnicode(s) ==
  IF s = <<>> THEN <<>>
  ELSE <<IF Head(s) \in SpecialUnicode THEN "SP" ELSE Head(s)>>
       \o ReplaceSpecialUnicode(Tail(s))

\* description.replace(/\s+/g, ' ')
RECURSIVE CollapseWhiteSpace(_)
CollapseWhiteSpace(s) ==
  IF s = <<>> THEN <<>>
  ELSE IF IsSpace(Head(s))
       THEN <<"SP">> \o CollapseWhiteSpace(TrimStart(s))
       ELSE <<Head(s)>> \o CollapseWhiteSpace(Tail(s))

\* description.replace(/\r\n|\r|\n/g, '\n')
RECURSIVE NormalizeLineBreaks(_)
NormalizeLineBreaks(s) ==
  IF s = <<>> THEN <<>>
  ELSE IF Head(s) = "CR" /\ Len(s) >= 2 /\ s[2] = "LF"
       THEN <<"LF">> \o NormalizeLineBreaks(Tail(Tail(s)))
       ELSE IF Head(s) \in {"CR", "LF"}
            THEN <<"LF">> \o NormalizeLineBreaks(Tail(s))
            ELSE <<Head(s)>> \o NormalizeLineBreaks(Tail(s))

\* description.split('\n'): the lines, the empty ones included
RECURSIVE SplitLines(_, _)
SplitLines(s, line) ==
  IF s = <<>> THEN <<line>>
  ELSE IF Head(s) = "LF"
       THEN <<line>> \o SplitLines(Tail(s), <<>>)
       ELSE SplitLines(Tail(s), Append(line, Head(s)))

Split(s) == SplitLines(s, <<>>)

\* whether s starts with prefix
StartsWith(s, prefix) ==
  Len(s) >= Len(prefix) /\ SubSeq(s, 1, Len(prefix)) = prefix

\* the longest prefix of non-whitespace characters: what \S+ takes
RECURSIVE NonSpaceRun(_)
NonSpaceRun(s) ==
  IF s = <<>> \/ IsSpace(Head(s)) THEN 0 ELSE 1 + NonSpaceRun(Tail(s))

\* length of the match of /https?:\/\/\S+/ at the start of s, 0 if none
UrlMatch(s) ==
  LET scheme == IF StartsWith(s, Https) THEN Len(Https)
                ELSE IF StartsWith(s, Http) THEN Len(Http) ELSE 0
      rest == SubSeq(s, scheme + 1, Len(s))
  IN IF scheme > 0 /\ NonSpaceRun(rest) > 0 THEN scheme + NonSpaceRun(rest) ELSE 0

\* the replace without the g flag: only the first URL of a line is removed
RECURSIVE RemoveFirstUrl(_)
RemoveFirstUrl(line) ==
  IF line = <<>> THEN <<>>
  ELSE IF UrlMatch(line) > 0
       THEN SubSeq(line, UrlMatch(line) + 1, Len(line))
       ELSE <<Head(line)>> \o RemoveFirstUrl(Tail(line))

\* line.replace(/https?:\/\/\S+/g, '')
RECURSIVE RemoveUrls(_)
RemoveUrls(line) ==
  IF line = <<>> THEN <<>>
  ELSE IF UrlMatch(line) > 0
       THEN RemoveUrls(SubSeq(line, UrlMatch(line) + 1, Len(line)))
       ELSE <<Head(line)>> \o RemoveUrls(Tail(line))

\* .map(line => line.replace(...).trim()).filter(line => line.length > 0)
RECURSIVE CleanLines(_)
CleanLines(lines) ==
  IF lines = <<>> THEN <<>>
  ELSE LET line == Trim(RemoveUrls(Head(lines)))
       IN (IF Len(line) > 0 THEN <<line>> ELSE <<>>) \o CleanLines(Tail(lines))

\* .join('\n')
RECURSIVE Join(_)
Join(lines) ==
  IF lines = <<>> THEN <<>>
  ELSE IF Len(lines) = 1 THEN Head(lines)
       ELSE Head(lines) \o <<"LF">> \o Join(Tail(lines))

\* description.replace(/\n+/g, '\n')
RECURSIVE CollapseLineBreaks(_)
CollapseLineBreaks(s) ==
  IF s = <<>> THEN <<>>
  ELSE IF Head(s) = "LF" /\ Len(s) >= 2 /\ s[2] = "LF"
       THEN CollapseLineBreaks(Tail(s))
       ELSE <<Head(s)>> \o CollapseLineBreaks(Tail(s))

\* the final test lost: the cleaned text is returned as it is
EmptyKept(s) == Str(s)

\* the final description.length > 0 ? description : null
EmptyToNull(s) == IF Len(s) > 0 THEN Str(s) ELSE Null

cleanDescription(description) ==
  IF description = Null THEN Null
  ELSE LET d1 == ReplaceSpecialUnicode(description.s)
           d2 == CollapseWhiteSpace(d1)
           d3 == Trim(d2)
           d4 == NormalizeLineBreaks(d3)
           d5 == Join(CleanLines(Split(d4)))
           d6 == Trim(CollapseLineBreaks(d5))
       IN EmptyToNull(d6)

\* the pieces the inputs of cleanDescription are made of
Fragments ==
  { <<"a">>, <<"SP">>, <<"LF">>, <<"CR">>, <<"TAB">>, <<"NBSP">>, <<"ZWSP">>,
    <<"BOM">>, Http, Https \o <<"a">> }

\* pieces in one input
MaxFragments == 4

RECURSIVE StringsOf(_)
StringsOf(n) ==
  IF n = 0 THEN {<<>>}
  ELSE LET shorter == StringsOf(n - 1)
       IN shorter \cup {s \o f : s \in shorter, f \in Fragments}

\* descriptions a video page can carry: words and a link on one line,
\* a line that is only a link, blank lines and runs of spaces
ExampleUrlBetweenWords ==
  <<"a", "b", "c", "SP">> \o Https \o <<"e", ".", "c", "/", "x", "?", "y", "=", "1">>
    \o <<"SP", "d", "e", "f">>
ExampleLinkOnlyLine ==
  <<"H", "e", "l", "l", "o", "LF">> \o Https \o <<"o", ".", "e">>
    \o <<"LF", "W", "o", "r", "l", "d">>
ExampleBlankLines ==
  <<"C", "h", "e", "c", "k", "SP", "SP", "SP", "t", "h", "i", "s", "LF">>
    \o Http \o <<"a", ".", "b", "/", "c">> \o <<"LF", "LF", "SP", "SP", "o", "u", "t">>
ExampleNoBreakSpaces == <<"a", "NBSP", "NBSP", "b", "SP", "SP", "SP", "c">>

ExampleInputs ==
  { ExampleUrlBetweenWords, ExampleLinkOnlyLine, ExampleBlankLines, ExampleNoBreakSpaces }

CleanInputs ==
  {Null} \cup {Str(s) : s \in StringsOf(MaxFragments) \cup ExampleInputs}

InitClean ==
  /\ version = "part_000"
  /\ calls = [c \in Calls |-> NewCall]
  /\ event = NoEvent
  /\ cleanIn \in CleanInputs
  /\ cleanOut = Null
  /\ cleanPc = "ready"
  /\ flat = FlatOff
  /\ popup = PopupOff

\* the popup cleans the description it received
Clean ==
  /\ cleanPc = "ready"
  /\ cleanOut' = cleanDescription(cleanIn)
  /\ cleanPc' = "done"
  /\ UNCHANGED <<version, calls, event, cleanIn, flat, popup>>

NextClean == Clean

CleanSpec == InitClean /\ [][NextClean]_vars

----------------------------------------------------------------------------
(* Properties *)

\* call c was started by a 'getTitleAndDescription' message
Started(c) == calls[c].action = "getTitleAndDescription"

\* the value a call resolves to when its retry budget is used up
NoContent(v) == IF v = "part_000" THEN Null ELSE Str(DescriptionSentinel)

\* C1: within one call attempts never decreases and never exceeds
\* maxAttempts; a resolved call has no timer pending, and once a call is
\* resolved no tryGetDescription or extractDescription step of it runs
\* (attempts, lookups and clicks stay as they are).
C1_AttemptsBoundedQuietAfterResolve ==
  [][ \A c \in Calls :
        /\ calls'[c].attempts >= calls[c].attempts
        /\ calls'[c].attempts <= maxAttempts(version)
        /\ calls'[c].settled =>
             calls'[c].pendingTry = 0 /\ calls'[c].pendingExtract = 0
        /\ calls[c].settled =>
             /\ calls'[c].settled /\ calls'[c].value = calls[c].value
             /\ calls'[c].attempts = calls[c].attempts
             /\ calls'[c].lookups = calls[c].lookups
             /\ calls'[c].clicks = calls[c].clicks
             /\ event'.c = c => event'.op = "then" ]_vars

\* a call that polled more than once is resolved, in either revision
C1_Witness ==
  /\ calls[1].settled
  /\ calls[1].attempts = maxAttempts(version)
  /\ calls[1].clicks >= 2
  /\ event.op = "then"

\* C2: while every poll of a call has found no container, the call has
\* made at most maxAttempts lookups; it is resolved exactly when it has made
\* maxAttempts of them, and then to the no-content value; after that no
\* lookup and no click happens; and such a call does get there.
C2_ExhaustionAfterMaxAttemptsLookups ==
  /\ [][ \A c \in Calls :
           /\ (Started(c) /\ calls[c].allAbsent)' =>
                /\ calls'[c].lookups <= maxAttempts(version)
                /\ calls'[c].settled <=> calls'[c].lookups = maxAttempts(version)
                /\ calls'[c].settled => calls'[c].value = NoContent(version)
           /\ (calls[c].settled /\ calls[c].allAbsent) =>
                /\ calls'[c].lookups = calls[c].lookups
                /\ calls'[c].clicks = calls[c].clicks ]_vars
  /\ \A c \in Calls :
       (Started(c) /\ calls[c].allAbsent)
         ~> \/ ~calls[c].allAbsent
            \/ /\ calls[c].settled
               /\ calls[c].lookups = maxAttempts(version)
               /\ calls[c].value = NoContent(version)

\* the container was absent at all five polls of a part_001 call
C2_Witness ==
  /\ version = "part_001"
  /\ calls[1].allAbsent
  /\ calls[1].lookups = MaxAttempts001
  /\ calls[1].settled
  /\ calls[1].value = Str(DescriptionSentinel)

\* C3: a 'getTitleAndDescription' message is answered exactly once: never
\* more than one sendResponse, none before the description promise is
\* settled and the call's timers are gone, the one response carrying the
\* title read at the message and the value the promise settled to, and the
\* response does come.
C3_OneResponseAfterDescriptionSettled ==
  /\ [][ \A c \in Calls : Started(c)' =>
           /\ calls'[c].responses <= 1
           /\ calls'[c].responses >= calls[c].responses
           /\ calls'[c].responses = 1 =>
                /\ calls'[c].settled
                /\ calls'[c].pendingTry = 0 /\ calls'[c].pendingExtract = 0
                /\ calls'[c].response.hasDescription
                /\ calls'[c].response.title = calls'[c].title
                /\ calls'[c].response.description = calls'[c].value
           /\ calls[c].responses = 1 => calls'[c].response = calls[c].response ]_vars
  /\ \A c \in Calls : Started(c) ~> (calls[c].responses = 1)

\* the title was there at once, the description took the whole budget
C3_Witness ==
  /\ version = "part_001"
  /\ calls[1].title = <<"a">>
  /\ calls[1].attempts = MaxAttempts001
  /\ calls[1].responses = 1
  /\ calls[1].response = [title |-> <<"a">>, hasDescription |-> TRUE,
                          description |-> Str(DescriptionSentinel)]

\* C4: every started call is eventually resolved, whatever the page shows
\* at each poll, provided the timers fire.
C4_EveryCallResolves ==
  \A c \in Calls : Started(c) ~> calls[c].settled

\* a part_000 call resolved at its last attempt after the control was
\* clicked at each attempt
C4_Witness ==
  /\ version = "part_000"
  /\ calls[1].settled
  /\ calls[1].attempts = MaxAttempts000
  /\ calls[1].clicks = MaxAttempts000
  /\ event.op = "extractDescription"

\* C5 as claimed: in every revision a poll that finds the container with
\* no text is treated as one that finds no container: polled again while
\* attempts < maxAttempts, resolved to the no-content value only after.
C5_Original_EmptyRetriedInEveryRevision ==
  \A c \in Calls : (event.c = c /\ event.found = "empty") =>
    IF calls[c].attempts < maxAttempts(version)
    THEN ~calls[c].settled /\ calls[c].pendingTry = 1
    ELSE calls[c].settled /\ calls[c].value = NoContent(version)

\* C5: in part_001 a poll that finds the container with no text is polled
\* again while attempts < maxAttempts and resolves to the sentinel only when
\* the attempts are used up; in part_000 such a poll resolves the call to
\* null at once, whatever attempts is.
C5_EmptyRetriedIn001ResolvedIn000 ==
  \A c \in Calls : (event.c = c /\ event.found = "empty") =>
    IF version = "part_001"
    THEN IF calls[c].attempts < MaxAttempts001
         THEN /\ ~calls[c].settled
              /\ calls[c].pendingTry = 1 /\ calls[c].pendingExtract = 0
         ELSE calls[c].settled /\ calls[c].value = Str(DescriptionSentinel)
    ELSE /\ calls[c].settled /\ calls[c].value = Null
         /\ calls[c].pendingTry = 0 /\ calls[c].pendingExtract = 0

\* a part_001 poll found an empty container at the second attempt and
\* set the timer of the third
C5_Witness ==
  /\ version = "part_001"
  /\ event.c = 1 /\ event.found = "empty"
  /\ calls[1].attempts = 2
  /\ calls[1].pendingTry = 1
  /\ ~calls[1].settled

\* C6 as claimed: a call clicks the expand control at most once.
C6_Original_AtMostOneClick ==
  \A c \in Calls : calls[c].clicks <= 1

\* C6: a call clicks the expand control at most once per attempt, in the
\* step that starts the attempt, so at most maxAttempts times, and never
\* after it is resolved.
C6_AtMostOneClickPerAttempt ==
  [][ \A c \in Calls :
        /\ calls'[c].clicks <= calls'[c].attempts
        /\ calls'[c].clicks <= maxAttempts(version)
        /\ \/ calls'[c].clicks = calls[c].clicks
           \/ /\ calls'[c].clicks = calls[c].clicks + 1
              /\ calls'[c].attempts = calls[c].attempts + 1
        /\ calls[c].settled => calls'[c].clicks = calls[c].clicks ]_vars

\* the control was there, and clicked, at each of the five attempts
C6_Witness ==
  /\ version = "part_001"
  /\ calls[1].clicks = MaxAttempts001
  /\ calls[1].attempts = MaxAttempts001

\* C7 as claimed: a null description means the retry budget was used up
\* and the resolving poll read no text; any other description is the
\* non-empty text the resolving poll read.
C7_Original_NullOnlyAfterExhaustion ==
  \A c \in Calls : calls[c].settled =>
    /\ calls[c].value = Null => calls[c].attempts = maxAttempts(version)
    /\ calls[c].value # Null => calls[c].value.s # <<>>
    /\ (event.c = c /\ event.op # "then") =>
         IF calls[c].value = Null THEN event.found # "text"
         ELSE event.found = "text" /\ calls[c].value = Str(event.text)

\* C7: the response carries the value the call resolved to; a poll that
\* read text resolves to that text, never empty; part_000 resolves to null
\* when the resolving poll found an empty container (at any attempt) or no
\* container at the last attempt; part_001 never resolves to null, and to
\* the sentinel when the last attempt found no container or an empty one.
C7_DescriptionOfTheResolvingPoll ==
  \A c \in Calls : calls[c].settled =>
    /\ version = "part_001" => calls[c].value # Null
    /\ calls[c].value # Null => calls[c].value.s # <<>>
    /\ (Started(c) /\ calls[c].responses = 1) =>
         calls[c].response.description = calls[c].value
    /\ (event.c = c /\ event.op # "then") =>
         CASE event.found = "text" ->
                event.text # <<>> /\ calls[c].value = Str(event.text)
           [] event.found = "empty" ->
                IF version = "part_000" THEN calls[c].value = Null
                ELSE /\ calls[c].attempts = MaxAttempts001
                     /\ calls[c].value = Str(DescriptionSentinel)
           [] event.found = "absent" ->
                /\ calls[c].attempts = maxAttempts(version)
                /\ calls[c].value = NoContent(version)
           [] OTHER -> FALSE

\* a part_000 call resolved to null at its first attempt
C7_Witness ==
  /\ version = "part_000"
  /\ calls[1].settled /\ calls[1].value = Null
  /\ calls[1].attempts = 1
  /\ event.c = 1 /\ event.found = "empty"

\* C8 as claimed: the title of every response that carries a title and a
\* description is a non-empty string.
C8_TitleNeverEmpty ==
  \A c \in Calls :
    (calls[c].responses >= 1 /\ calls[c].response.hasDescription) =>
      calls[c].response.title # <<>>

\* C9: with overlapping calls, a callback of one call changes nothing of
\* another call (its attempts, timers, promise, response), so no message
\* cancels or resolves an earlier call; every message is answered at most
\* once, after its own call resolved within its own retry budget; and every
\* call resolves and is answered.
C9_OverlappingCallsAreIndependent ==
  /\ [][ \A c \in Calls :
           /\ event'.c # c => calls'[c] = calls[c]
           /\ calls[c].settled =>
                calls'[c].settled /\ calls'[c].value = calls[c].value
           /\ calls'[c].attempts <= maxAttempts(version)
           /\ calls'[c].pendingTry + calls'[c].pendingExtract <= 1
           /\ Started(c)' =>
                /\ calls'[c].responses <= 1
                /\ calls'[c].responses = 1 =>
                     /\ calls'[c].settled
                     /\ calls'[c].response.description = calls'[c].value ]_vars
  /\ \A c \in Calls :
       Started(c) ~> (calls[c].settled /\ calls[c].responses = 1)

\* two calls in flight at once, at different attempts, each having
\* clicked the expand control
C9_Witness ==
  /\ Started(1) /\ Started(2)
  /\ calls[1].attempts = 3 /\ calls[1].pendingTry = 1 /\ calls[1].clicks >= 1
  /\ calls[2].attempts = 1 /\ calls[2].pendingExtract = 1 /\ calls[2].clicks = 1
  /\ ~calls[1].settled /\ ~calls[2].settled

\* characters cleanDescription turns into spaces or trims away
BlankCharacters == JsWhiteSpace \cup SpecialUnicode

\* C10: cleanDescription returns null or a non-empty string for every
\* input, never the empty string: null for null, null for an input of
\* whitespace, non-breaking-space and zero-width characters only, and a
\* non-empty string for an input with a letter and no URL scheme in it.
C10_CleanNeverReturnsEmptyString ==
  cleanPc = "done" =>
    /\ \/ cleanOut = Null
       \/ ~cleanOut.isNull /\ Len(cleanOut.s) > 0
    /\ cleanIn = Null => cleanOut = Null
    /\ (cleanIn # Null /\ \A i \in 1..Len(cleanIn.s) : cleanIn.s[i] \in BlankCharacters)
         => cleanOut = Null
    /\ (cleanIn # Null /\ (\E i \in 1..Len(cleanIn.s) : cleanIn.s[i] = "a")
                       /\ (\A i \in 1..Len(cleanIn.s) : cleanIn.s[i] # "h"))
         => cleanOut # Null

\* an input of a zero-width space, a non-breaking space, a byte order mark
\* and a line feed was cleaned to null
C10_Witness ==
  /\ cleanPc = "done"
  /\ cleanIn = Str(<<"ZWSP", "NBSP", "BOM", "LF">>)
  /\ cleanOut = Null

\* C11 as claimed: cleanDescription is idempotent: cleaning a cleaned
\* description again gives the same description.
C11_CleanIsIdempotent ==
  (cleanPc = "done" /\ cleanOut # Null) => cleanDescription(cleanOut) = cleanOut

\* a line without its whitespace
RECURSIVE WithoutSpaces(_)
WithoutSpaces(s) ==
  IF s = <<>> THEN <<>>
  ELSE (IF IsSpace(Head(s)) THEN <<>> ELSE <<Head(s)>>) \o WithoutSpaces(Tail(s))

\* the lines of an input that still have text once their URLs are removed
\* and they are trimmed, in the order of the input
SurvivingLines(s) ==
  CleanLines(Split(NormalizeLineBreaks(ReplaceSpecialUnicode(s))))

\* the lines of a cleaned description
OutputLines(v) == IF v = Null THEN <<>> ELSE Split(v.s)

\* C12 as claimed: the output has one line for each input line that has
\* text left after URL removal and trimming, in the order of the input and
\* with the words of that line, the lines separated by one line feed; a
\* line that is only a link is dropped, the lines around it are kept apart.
C12_CleanKeepsLines ==
  (cleanPc = "done" /\ cleanIn # Null) =>
    /\ Len(OutputLines(cleanOut)) = Len(SurvivingLines(cleanIn.s))
    /\ \A i \in 1..Len(OutputLines(cleanOut)) :
         i <= Len(SurvivingLines(cleanIn.s)) =>
           WithoutSpaces(OutputLines(cleanOut)[i])
             = WithoutSpaces(SurvivingLines(cleanIn.s)[i])
    /\ cleanIn = Str(ExampleLinkOnlyLine) =>
         cleanOut = Str(<<"H", "e", "l", "l", "o", "LF", "W", "o", "r", "l", "d">>)

\* C13 as claimed: no two whitespace characters are adjacent in the
\* output, also where a URL was removed from between two words.
C13_CleanLeavesSingleSpaces ==
  (cleanPc = "done" /\ cleanOut # Null) =>
    /\ \A i \in 1..(Len(cleanOut.s) - 1) :
         ~(IsSpace(cleanOut.s[i]) /\ IsSpace(cleanOut.s[i + 1]))
    /\ cleanIn = Str(ExampleUrlBetweenWords) =>
         cleanOut = Str(<<"a", "b", "c", "SP", "d", "e", "f">>)

----------------------------------------------------------------------------
(* The text flattener of part_001 on its own *)

\* children of one element
MaxChildren == 2

RECURSIVE SeqsUpTo(_, _)
SeqsUpTo(S, n) ==
  IF n = 0 THEN {<<>>}
  ELSE LET shorter == SeqsUpTo(S, n - 1)
       IN shorter \cup {Append(q, x) : q \in shorter, x \in S}

FlatHref == Https \o <<"x", ".", "t", "e", "s", "t">>

\* text nodes, elements over text nodes, and elements over one such element
FlatLeaves == { TextNode(<<"c", "l", "i", "c", "k">>), TextNode(<<"SP">>) }
FlatInner ==
  {Element("SPAN", kids) : kids \in SeqsUpTo(FlatLeaves, MaxChildren)}
    \cup {Anchor(FlatHref, kids) : kids \in SeqsUpTo(FlatLeaves, MaxChildren)}
FlatNested ==
  {Element("SPAN", <<n>>) : n \in {m \in FlatInner : Len(m.children) <= 1}}
    \cup {Anchor(FlatHref, <<n>>) : n \in {m \in FlatInner : Len(m.children) <= 1}}

\* the containers extractText is run on
FlatTrees ==
  {Element("YT-ATTRIBUTED-STRING", kids) :
     kids \in SeqsUpTo(FlatLeaves \cup FlatInner \cup FlatNested, MaxChildren)}

InitFlat ==
  /\ version = "part_001"
  /\ calls = [c \in Calls |-> NewCall]
  /\ event = NoEvent
  /\ cleanIn = Null
  /\ cleanOut = Null
  /\ cleanPc = "off"
  /\ flat \in {[pc |-> "ready", tree |-> t, text |-> <<>>] : t \in FlatTrees}
  /\ popup = PopupOff

\* const description = extractText(descriptionElement).trim()
Flatten ==
  /\ flat.pc = "ready"
  /\ flat' = [flat EXCEPT !.pc = "done", !.text = Trim(extractText(flat.tree))]
  /\ UNCHANGED <<version, calls, event, cleanIn, cleanOut, cleanPc, popup>>

NextFlat == Flatten

FlatSpec == InitFlat /\ [][NextFlat]_vars

\* the nodes below the given ones, in document order
RECURSIVE DocumentOrder(_)
DocumentOrder(nodes) ==
  IF nodes = <<>> THEN <<>>
  ELSE <<Head(nodes)>> \o DocumentOrder(Head(nodes).children)
         \o DocumentOrder(Tail(nodes))

\* what one node adds to the flattened text
Contribution(node) ==
  IF node.kind = "text" THEN node.text
  ELSE IF node.tagName = "A" THEN node.href \o <<"SP">> ELSE <<>>

RECURSIVE Contributions(_)
Contributions(nodes) ==
  IF nodes = <<>> THEN <<>>
  ELSE Contribution(Head(nodes)) \o Contributions(Tail(nodes))

\* C14: the flattened text of a container is the trimmed concatenation,
\* over the nodes below it in document order, of the content of each text
\* node and of the href and one space of each anchor; an anchor to
\* https://x.test with the label click flattens to "https://x.test click".
C14_FlattenerIsDocumentOrder ==
  flat.pc = "done" =>
    /\ flat.text = Trim(Contributions(DocumentOrder(flat.tree.children)))
    /\ flat.tree = Element("YT-ATTRIBUTED-STRING",
                           <<Anchor(FlatHref, <<TextNode(<<"c", "l", "i", "c", "k">>)>>)>>)
         => flat.text = FlatHref \o <<"SP", "c", "l", "i", "c", "k">>

\* a container with text, then a span holding an anchor with a label, was
\* flattened
C14_Witness ==
  /\ flat.pc = "done"
  /\ flat.tree = Element("YT-ATTRIBUTED-STRING",
       << TextNode(<<"c", "l", "i", "c", "k">>),
          Element("SPAN", <<Anchor(FlatHref, <<TextNode(<<"c", "l", "i", "c", "k">>)>>)>>) >>)
  /\ flat.text = <<"c", "l", "i", "c", "k">> \o FlatHref \o <<"SP", "c", "l", "i", "c", "k">>

\* C16: a call has at most one timer pending, and none once it is
\* resolved; a timer of a call is set only by a callback of that call,
\* which has used up the timer that started it, so the polls of a call run
\* one after the other.
C16_OneTimerPerCall ==
  [][ \A c \in Calls :
        /\ calls'[c].pendingTry + calls'[c].pendingExtract <= 1
        /\ calls'[c].settled => calls'[c].pendingTry + calls'[c].pendingExtract = 0
        /\ calls'[c].pendingTry + calls'[c].pendingExtract
             > calls[c].pendingTry + calls[c].pendingExtract
             => event'.c = c /\ event'.op = "message"
        /\ (calls'[c].pendingTry = 1 /\ event'.c = c) =>
             /\ event'.found \in {"absent", "empty"}
             /\ calls[c].pendingTry + calls[c].pendingExtract
                  = IF event'.op = "message" THEN 0 ELSE 1
        /\ calls'[c].lookups <= calls'[c].attempts
        /\ calls'[c].pendingExtract = 1 => calls'[c].lookups = calls'[c].attempts - 1 ]_vars

\* the retry timer of a call is pending after its second poll, and it is
\* the only one
C16_Witness ==
  /\ calls[1].attempts = 2
  /\ calls[1].lookups = 2
  /\ calls[1].pendingTry = 1
  /\ calls[1].pendingExtract = 0
  /\ event.op = "extractDescription"

\* whether a URL starts at position i of s: http:// or https:// and then a
\* character that is not whitespace
UrlAt(s, i) ==
  LET rest == SubSeq(s, i, Len(s))
  IN \/ StartsWith(rest, Http) /\ Len(rest) > Len(Http) /\ ~IsSpace(rest[Len(Http) + 1])
     \/ StartsWith(rest, Https) /\ Len(rest) > Len(Https) /\ ~IsSpace(rest[Len(Https) + 1])

\* C17: a cleaned description holds no URL: at no position does http:// or
\* https:// stand before a character that is not whitespace.
C17_CleanLeavesNoUrl ==
  (cleanPc = "done" /\ cleanOut # Null) =>
    \A i \in 1..Len(cleanOut.s) : ~UrlAt(cleanOut.s, i)

\* a bare scheme, then a space, then a URL: the URL was removed and the
\* scheme, which has nothing after it, was kept
C17_Witness ==
  /\ cleanPc = "done"
  /\ cleanIn = Str(<<"a">> \o Http \o <<"SP">> \o Https \o <<"a">>)
  /\ cleanOut = Str(<<"a">> \o Http)

----------------------------------------------------------------------------
(* The popup *)

PopupVersions == {"popup.js", "part_002"}

\* the texts the popup writes into its panel
NoValidDescriptionText == <<"wu", "you", "xiao", "miao", "shu">>
NoDescriptionText == <<"wu", "miao", "shu">>
ErrorTitleText == <<"e", "r", "r", "o", "r", ".", "t", "i", "t", "l", "e">>
ErrorDescriptionText ==
  <<"e", "r", "r", "o", "r", ".", "d", "e", "s", "c", "r", "i", "p", "t", "i", "o", "n">>
CachedSuffix == <<"SP", "(", "lai", "zi", "kuai", "qu", ")">>
SendErrorText ==
  <<"fa", "song", "shu", "ju", "shi", "chu", "cuo", ",",
    "qing", "cha", "kan", "kong", "zhi", "tai">>

\* what the local endpoint answers: { result, cached }
FetchData == [result : {<<"r">>}, cached : BOOLEAN]

\* element.textContent = value: null shows as the empty string
SetTextContent(value) == IF value = Null THEN <<>> ELSE value.s

\* sendDataToRustApp(title, description): one POST with body
\* { title, description }
sendDataToRustApp(p, title, description) ==
  [p EXCEPT !.posts = Append(@, [title |-> title, description |-> description]),
            !.pc = "posted"]

\* the click handler up to chrome.tabs.sendMessage
clickHandler(p) ==
  [p EXCEPT !.loader = "inline-block", !.title = <<>>, !.description = <<>>,
            !.sent = @ + 1, !.pc = "waiting"]

\* the response callback with chrome.runtime.lastError set
callbackLastError(p) ==
  IF p.version = "popup.js"
  THEN [p EXCEPT !.lastError = TRUE, !.loader = "none", !.pc = "done"]
  ELSE [p EXCEPT !.lastError = TRUE, !.loader = "none",
                 !.title = ErrorTitleText, !.description = ErrorDescriptionText,
                 !.pc = "done"]

\* the response callback of popup.js with a response
callbackPopupJs(p, response) ==
  IF response.description # Null
  THEN LET cleanedDescription == cleanDescription(response.description)
       IN sendDataToRustApp(
            [p EXCEPT !.title = response.title,
                      !.description = IF cleanedDescription = Null
                                         \/ cleanedDescription.s = <<>>
                                      THEN NoValidDescriptionText
                                      ELSE cleanedDescription.s,
                      !.loader = "none"],
            response.title, cleanedDescription)
  ELSE sendDataToRustApp(
         [p EXCEPT !.title = response.title, !.description = NoDescriptionText,
                   !.loader = "none"],
         response.title, Null)

\* the response callback of part_002 with a response
callbackPart002(p, response) ==
  sendDataToRustApp(
    [p EXCEPT !.loader = "none", !.title = response.title,
              !.description = SetTextContent(response.description)],
    response.title, response.description)

callback(p, response) ==
  IF p.version = "popup.js" THEN callbackPopupJs(p, response)
  ELSE callbackPart002(p, response)

\* the then-callback of fetch: popup.js shows data.result, part_002 logs
fetchThen(p, data) ==
  IF p.version = "popup.js"
  THEN [p EXCEPT !.result = IF data.cached THEN data.result \o CachedSuffix
                            ELSE data.result,
                 !.pc = "done"]
  ELSE [p EXCEPT !.pc = "done"]

\* the catch-callback of fetch: popup.js shows a message, part_002 logs
fetchCatch(p) ==
  IF p.version = "popup.js"
  THEN [p EXCEPT !.result = SendErrorText, !.pc = "done"]
  ELSE [p EXCEPT !.pc = "done"]

\* a popup step leaves the content script as it is
PopupStep(p) ==
  /\ popup' = p
  /\ UNCHANGED <<version, calls, event, cleanIn, cleanOut, cleanPc, flat>>

InitPopup ==
  /\ version \in Versions
  /\ calls = [c \in Calls |-> NewCall]
  /\ event = NoEvent
  /\ cleanIn = Null
  /\ cleanOut = Null
  /\ cleanPc = "off"
  /\ flat = FlatOff
  /\ popup \in { [PopupOff EXCEPT !.version = pv, !.pc = "idle"] : pv \in PopupVersions }

\* the user clicks the button of the popup
Click ==
  /\ popup.pc = "idle"
  /\ PopupStep(clickHandler(popup))

\* the message of the popup reaches the listeners of the content script
PopupMessage ==
  /\ popup.pc = "waiting"
  /\ OnMessage(1)
  /\ calls'[1].action = "getTitleAndDescription"

\* the messaging fails (no receiver in the tab, or the port closed before
\* a response): the response callback runs with lastError set
PopupTransportError ==
  /\ popup.pc = "waiting"
  /\ calls[1].responses = 0
  /\ PopupStep(callbackLastError(popup))

\* the response of the content script reaches the response callback
PopupResponse ==
  /\ popup.pc = "waiting"
  /\ calls[1].responses > 0
  /\ PopupStep(callback(popup, calls[1].response))

\* the endpoint answers the POST
FetchThen ==
  /\ popup.pc = "posted"
  /\ \E data \in FetchData : PopupStep(fetchThen(popup, data))

\* the POST fails, or its answer is not JSON
FetchCatch ==
  /\ popup.pc = "posted"
  /\ PopupStep(fetchCatch(popup))

\* one click of the popup and everything that follows from it
NextPopup ==
  \/ Click
  \/ PopupMessage
  \/ TimerTry(1)
  \/ TimerExtract(1)
  \/ Then(1)
  \/ PopupTransportError
  \/ PopupResponse
  \/ FetchThen
  \/ FetchCatch

PopupSpec == InitPopup /\ [][NextPopup]_vars

\* the panel shows an error to the user
VisibleError ==
  popup.title # <<>> \/ popup.description # <<>> \/ popup.result # <<>>

\* C15: after the response callback ran with chrome.runtime.lastError set,
\* the panel shows an error, the loader is hidden, no POST was issued and
\* no message beyond the one of the click was sent.
C15_TransportErrorIsVisible ==
  popup.lastError =>
    /\ VisibleError
    /\ popup.loader = "none"
    /\ popup.posts = <<>>
    /\ popup.sent = 1

\* the call whose response the popup received used up its retry budget:
\* it made maxAttempts lookups and is settled to the no-content value
Exhausted ==
  /\ calls[1].settled
  /\ calls[1].lookups = maxAttempts(version)
  /\ calls[1].value = NoContent(version)

\* C18: once popup.js has received a response without a transport error
\* it has issued exactly one POST; the description of the POST is null or
\* the non-empty cleaned description; a null description and one that
\* cleaning reduces to nothing are delivered as null; and so is the
\* description of a call that used up its retry budget.
C18_DeliveryIsNullOrCleanedContent ==
  (popup.version = "popup.js" /\ popup.pc \in {"posted", "done"} /\ ~popup.lastError) =>
    /\ Len(popup.posts) = 1
    /\ popup.posts[1].title = calls[1].response.title
    /\ \/ popup.posts[1].description = Null
       \/ /\ popup.posts[1].description.s # <<>>
          /\ popup.posts[1].description = cleanDescription(calls[1].response.description)
    /\ cleanDescription(calls[1].response.description) = Null
         => popup.posts[1].description = Null
    /\ Exhausted => popup.posts[1].description = Null
====
